---- MODULE Spec2Model ----
(***************************************************************************)
(* A model of lib/linkedin.js: the media downloader (downloadLinkedInMedia *)
(* with its p-limit pool) and the scraper (scrapeLinkedInPost, scrapeOnce, *)
(* the embed-frame resolver and the extraction functions).                 *)
(*                                                                         *)
(* A URL is a record [host, marks, ext, n]: marks is the set of the path   *)
(* fragments the code tests with String.includes, ext the path's suffix    *)
(* after the last dot ("" when there is none), n tells URLs apart.         *)
(***************************************************************************)
EXTENDS Integers, Sequences, FiniteSets, TLC

\* ------------------------------------------------------------------ bounds
\* Longest request list handed to downloadLinkedInMedia.
MaxRequests == 4

\* ------------------------------------------------------- program constants
\* RETRY_COUNT, one retry short.
RetryCountOneLess == 2 - 1

\* RETRY_COUNT, one retry too many.
RetryCountOneMore == 2 + 1

RETRY_COUNT == 2
MAX_MEDIA_COUNT == 40
\* MAX_DOWNLOAD_COUNT, one download too many.
MaxDownloadCountOneMore == 40 + 1

MAX_DOWNLOAD_COUNT == 40
DOWNLOAD_CONCURRENCY == 3
EMBED_FETCH_CONCURRENCY == 2
MAX_EMBED_FETCHES == 3

\* --------------------------------------------------------------- helpers
Min(a, b) == IF a < b THEN a ELSE b

Range(s) == {s[i] : i \in DOMAIN s}

\* Set.prototype.has, for a Set kept as the sequence of its values
Has(s, x) == \E i \in DOMAIN s : s[i] = x

\* Array.prototype.slice(0, k)
Slice(s, k) == SubSeq(s, 1, Min(Len(s), k))

\* The values of a JavaScript Set that holds acc, after the items of s from
\* position i on are added in order: insertion order, each value once.
\* (The test on Len makes the accumulator a value before the next call.)
RECURSIVE SetOrderFrom(_, _, _)
SetOrderFrom(s, i, acc) ==
    IF i > Len(s) THEN acc
    ELSE LET next == IF Has(acc, s[i]) THEN acc ELSE Append(acc, s[i])
         IN IF Len(next) >= 0 THEN SetOrderFrom(s, i + 1, next) ELSE next

SetOrder(s, acc) == SetOrderFrom(s, 1, acc)

NewSet(s) == SetOrder(s, <<>>)

\* ------------------------------------------------------------ strings, URLs
\* A string value is a URL string Str(u, pad) (u the URL record), a text
\* Text(t, pad), the empty string, or Undefined (an absent attribute); pad
\* says that white space pads it.
Undefined == [kind |-> "undefined"]

EmptyString == [kind |-> "empty"]

Str(u, pad) == [kind |-> "str", u |-> u, pad |-> pad]

Text(t, pad) == [kind |-> "text", t |-> t, pad |-> pad]

\* utils.js normalizeWhitespace: "" for a missing value, else the string
\* with its white space collapsed and trimmed.
normalizeWhitespace(value) ==
    CASE value.kind = "str" -> Str(value.u, FALSE)
      [] value.kind = "text" ->
           IF value.t = "" THEN EmptyString ELSE Text(value.t, FALSE)
      [] OTHER -> EmptyString

\* utils.js isAllowedLinkedInMediaHost: the media host allowlist.
isAllowedLinkedInMediaHost(host) ==
    host \in {"media.licdn.com", "www.linkedin.com"}

\* utils.js isAllowedLinkedInMediaUrl: a well-formed URL on an allowed host.
isAllowedLinkedInMediaUrl(url) ==
    /\ url # EmptyString
    /\ isAllowedLinkedInMediaHost(url.u.host)

\* pathname.includes(fragment)
PathIncludes(url, fragment) == fragment \in url.u.marks

EXCLUDED_IMAGE_URL_HINTS ==
    {"profile-displayphoto", "company-logo", "school-logo",
     "profile-framedphoto", "ghost-person"}

hasAnyHint(url, hints) == \E h \in hints : PathIncludes(url, h)

isLikelyImageMediaPath(url) ==
    IF ~PathIncludes(url, "/dms/image/") THEN FALSE
    ELSE ~hasAnyHint(url, EXCLUDED_IMAGE_URL_HINTS)

isLikelyVideoMediaPath(url) ==
    PathIncludes(url, "/dms/video/") \/ PathIncludes(url, "/dms/videoplayback/")

isLikelyDocumentMediaPath(url) == PathIncludes(url, "/dms/document/")

\* ------------------------------------------------- classification, filenames
MimeStartsWith(mime, prefix) ==
    CASE prefix = "text/html" -> mime \in {"text/html"}
      [] prefix = "image/" -> mime \in {"image/jpeg", "image/png", "image/tiff"}
      [] prefix = "video/" -> mime \in {"video/mp4", "video/webm"}
      [] OTHER -> FALSE

NoMediaType == "null"

inferMediaType(requestedType, mimeType, sourceUrl) ==
    IF MimeStartsWith(mimeType, "text/html") THEN NoMediaType
    ELSE IF MimeStartsWith(mimeType, "image/") THEN "image"
    ELSE IF MimeStartsWith(mimeType, "video/") THEN "video"
    ELSE IF mimeType = "application/pdf" THEN "document"
    ELSE IF PathIncludes(sourceUrl, "/dms/document/") \/ sourceUrl.u.ext = "pdf"
         THEN "document"
    ELSE IF \/ PathIncludes(sourceUrl, "/dms/video/")
            \/ PathIncludes(sourceUrl, "/dms/videoplayback/")
            \/ sourceUrl.u.ext \in {"mp4", "mov", "webm", "mpeg"}
         THEN "video"
    ELSE IF PathIncludes(sourceUrl, "/dms/image/") THEN "image"
    ELSE IF /\ mimeType \in {"", "application/octet-stream"}
            /\ requestedType \in {"image", "video", "document"}
         THEN requestedType
    ELSE NoMediaType

NoExtension == "null"

MIME_TO_EXTENSION(mime) ==
    CASE mime = "image/jpeg" -> "jpg"
      [] mime = "image/jpg" -> "jpg"
      [] mime = "image/png" -> "png"
      [] mime = "image/webp" -> "webp"
      [] mime = "image/gif" -> "gif"
      [] mime = "image/heic" -> "heic"
      [] mime = "image/heif" -> "heif"
      [] mime = "video/mp4" -> "mp4"
      [] mime = "video/webm" -> "webm"
      [] mime = "video/quicktime" -> "mov"
      [] mime = "video/mpeg" -> "mpeg"
      [] mime = "application/pdf" -> "pdf"
      [] mime = "application/octet-stream" -> "bin"
      [] OTHER -> NoExtension

extensionFromUrl(urlValue) ==
    IF urlValue.u.ext = "" THEN NoExtension ELSE urlValue.u.ext

\* `linkedin-${mediaType}-${index + 1}.${ext}`; index is 0-based.
mediaFilename(index, mediaType, mimeType, sourceUrl) ==
    LET ext == IF MIME_TO_EXTENSION(mimeType) # NoExtension
               THEN MIME_TO_EXTENSION(mimeType)
               ELSE IF extensionFromUrl(sourceUrl) # NoExtension
               THEN extensionFromUrl(sourceUrl)
               ELSE "jpg"
    IN [site |-> "linkedin", mediaType |-> mediaType,
        index |-> index + 1, ext |-> ext]

\* ------------------------------------------------------------ the documents
\* A parsed document (cheerio's $) is a record of what the selectors of the
\* code find in it, in document order:
\*   title, ogTitle, ogDescription  strings (Undefined when absent)
\*   sel          per PRIMARY_TEXT_SELECTORS entry, the texts of its matches
\*   images       the elements POST_IMAGE_SELECTORS visit, each with the URL
\*                tokens of its four attributes and what decides
\*                isLikelyPostImageElement
\*   videoAttrs, docAttrs, frameAttrs  the URL tokens read from the matches
\*                of the video, document and embed-frame selectors
\*   scriptUrls   the URL tokens the script patterns match
\*   ogVideo, ogImage  the contents of the og: fallback metadata
\* An embed document holds attrs (the tokens of its generic scan) and
\* scriptUrls.

\* text.toLowerCase().includes(phrase), by the phrases a text holds.
TextIncludes(value, phrase) ==
    /\ value.kind = "text"
    /\ phrase \in (CASE value.t = "Sign in to LinkedIn" -> {"sign in"}
                     [] value.t = "Join LinkedIn" -> {"join linkedin"}
                     [] value.t = "LinkedIn: Log In" -> {"log in", "linkedin: log in"}
                     [] value.t = "LinkedIn Login" -> {"linkedin login"}
                     [] OTHER -> {})

\* `${title} ${ogTitle}` holds a phrase when one of its two parts does.
hasAuthWall(doc) ==
    LET title == normalizeWhitespace(doc.title)
        ogTitle == normalizeWhitespace(doc.ogTitle)
        CombinedIncludes(phrase) ==
            TextIncludes(title, phrase) \/ TextIncludes(ogTitle, phrase)
    IN \/ CombinedIncludes("sign in")
       \/ CombinedIncludes("log in")
       \/ CombinedIncludes("join linkedin")
       \/ CombinedIncludes("linkedin login")

isLowValueFallbackText(text) ==
    LET normalized == normalizeWhitespace(text)
    IN IF normalized = EmptyString THEN TRUE
       ELSE \/ TextIncludes(normalized, "join linkedin")
            \/ TextIncludes(normalized, "sign in")
            \/ TextIncludes(normalized, "log in")
            \/ TextIncludes(normalized, "linkedin: log in")

\* The non-empty normalized texts of a selector's matches, in order.
RECURSIVE SelectorChunks(_)
SelectorChunks(matches) ==
    IF matches = <<>> THEN <<>>
    ELSE LET text == normalizeWhitespace(Head(matches))
         IN IF text # EmptyString
            THEN <<text.t>> \o SelectorChunks(Tail(matches))
            ELSE SelectorChunks(Tail(matches))

\* FirstSelectorChunks without the break of lines 187-189: the chunks of
\* every selector.
RECURSIVE EverySelectorChunks(_)
EverySelectorChunks(sel) ==
    IF sel = <<>> THEN <<>>
    ELSE SelectorChunks(Head(sel)) \o EverySelectorChunks(Tail(sel))

\* Lines 179-190: the chunks of the first selector that yields any.
RECURSIVE FirstSelectorChunks(_)
FirstSelectorChunks(sel) ==
    IF sel = <<>> THEN <<>>
    ELSE IF Len(SelectorChunks(Head(sel))) > 0 THEN SelectorChunks(Head(sel))
    ELSE FirstSelectorChunks(Tail(sel))

\* The text is the sequence of the chunks that "\n\n" joins; "" is <<>>.
extractPostText(doc) ==
    LET chunks == FirstSelectorChunks(doc.sel)
        ogDescription == normalizeWhitespace(doc.ogDescription)
        ogTitle == normalizeWhitespace(doc.ogTitle)
        fallback == IF ogDescription # EmptyString THEN ogDescription ELSE ogTitle
    IN IF Len(chunks) > 0 THEN NewSet(chunks)
       ELSE IF isLowValueFallbackText(fallback) THEN <<>>
       ELSE <<fallback.t>>

\* addCandidateUrl for one URL token: resolved and normalized, it joins the
\* set when the validator accepts it and the set does not hold it.
addCandidateUrl(urlSet, rawUrl) ==
    LET value == normalizeWhitespace(rawUrl)
    IN IF value = EmptyString THEN urlSet
       ELSE IF isAllowedLinkedInMediaUrl(value) /\ ~Has(urlSet, value)
       THEN Append(urlSet, value)
       ELSE urlSet

RECURSIVE addCandidateUrls(_, _)
addCandidateUrls(urlSet, rawUrls) ==
    IF rawUrls = <<>> THEN urlSet
    ELSE LET next == addCandidateUrl(urlSet, Head(rawUrls))
         IN IF Len(next) >= 0 THEN addCandidateUrls(next, Tail(rawUrls)) ELSE next

\* Set.prototype.delete
SetDelete(urlSet, url) == SelectSeq(urlSet, LAMBDA x : x # url)

\* parseNumericDimension gives null for an absent or non-positive value: 0.
isLikelyPostImageElement(element, urlValue) ==
    IF ~PathIncludes(urlValue, "/dms/image/") THEN FALSE
    ELSE IF hasAnyHint(urlValue, EXCLUDED_IMAGE_URL_HINTS) THEN FALSE
    ELSE IF element.excludedClass THEN FALSE
    ELSE IF ~element.inKnownMediaContainer /\ ~element.hasStrongClassSignal
         THEN FALSE
    ELSE LET tooSmall == \/ (element.width # 0 /\ element.width < 140)
                         \/ (element.height # 0 /\ element.height < 140)
         IN ~(tooSmall /\ ~element.hasStrongClassSignal)

\* Lines 322-329 for one element: every token is added, and an added URL
\* that fails isLikelyPostImageElement is deleted again.
RECURSIVE ImageElementScan(_, _, _)
ImageElementScan(imageSet, element, tokens) ==
    IF tokens = <<>> THEN imageSet
    ELSE LET before == imageSet
             added == addCandidateUrl(imageSet, Head(tokens))
             kept == IF Len(added) > Len(before)
                        /\ ~isLikelyPostImageElement(element, added[Len(added)])
                     THEN SetDelete(added, added[Len(added)])
                     ELSE added
         IN IF Len(kept) >= 0 THEN ImageElementScan(kept, element, Tail(tokens))
            ELSE kept

RECURSIVE ImageScan(_, _)
ImageScan(imageSet, elements) ==
    IF elements = <<>> THEN imageSet
    ELSE LET next == ImageElementScan(imageSet, Head(elements),
                                      Head(elements).tokens)
         IN IF Len(next) >= 0 THEN ImageScan(next, Tail(elements)) ELSE next

\* Lines 311-331: imageSet when every selector has been scanned.
PageImageSet(doc) == ImageScan(<<>>, doc.images)

\* extractImageUrls without the slice of line 333.
extractImageUrlsUncapped(doc) == PageImageSet(doc)

extractImageUrls(doc) == Slice(PageImageSet(doc), MAX_MEDIA_COUNT)

\* The tokens the script patterns of a kind match.
\* The pattern of "video" also matches a /dms/videoplayback path.
ScriptMatches(doc, mediaKind) ==
    SelectSeq(doc.scriptUrls,
              LAMBDA raw :
                  CASE mediaKind = "image" -> PathIncludes(raw, "/dms/image/")
                    [] mediaKind = "video" ->
                         \/ PathIncludes(raw, "/dms/video/")
                         \/ PathIncludes(raw, "/dms/videoplayback/")
                    [] mediaKind = "videoplayback" ->
                         PathIncludes(raw, "/dms/videoplayback/")
                    [] OTHER -> PathIncludes(raw, "/dms/document/"))

extractScriptMediaUrls(doc, kind) ==
    IF kind = "video"
    THEN addCandidateUrls(addCandidateUrls(<<>>, ScriptMatches(doc, "video")),
                          ScriptMatches(doc, "videoplayback"))
    ELSE addCandidateUrls(<<>>, ScriptMatches(doc, kind))

\* Set.prototype.add of every item of urls
SetAddAll(urlSet, urls) == SetOrder(urls, urlSet)

\* Lines 359-410: videoSet, filtered by path shape.
PageVideoSet(doc) ==
    LET fromDom == addCandidateUrls(<<>>, doc.videoAttrs)
        withScripts == SetAddAll(fromDom, extractScriptMediaUrls(doc, "video"))
        videoSet == IF Len(withScripts) = 0
                    THEN addCandidateUrls(withScripts, doc.ogVideo)
                    ELSE withScripts
    IN SelectSeq(videoSet, isLikelyVideoMediaPath)

extractVideoUrls(doc) == Slice(PageVideoSet(doc), MAX_MEDIA_COUNT)

\* Lines 480-501: documentSet, filtered by path shape.
PageDocumentSet(doc) ==
    LET fromDom == addCandidateUrls(<<>>, doc.docAttrs)
        documentSet == IF Len(fromDom) = 0
                       THEN SetAddAll(fromDom, extractScriptMediaUrls(doc, "document"))
                       ELSE fromDom
    IN SelectSeq(documentSet, isLikelyDocumentMediaPath)

extractDocumentUrls(doc) == Slice(PageDocumentSet(doc), MAX_MEDIA_COUNT)

extractEmbedFrameUrls(doc) ==
    Slice(SelectSeq(addCandidateUrls(<<>>, doc.frameAttrs),
                    LAMBDA url : /\ isAllowedLinkedInMediaUrl(url)
                                 /\ PathIncludes(url, "/embeds/")),
          MAX_EMBED_FETCHES)

EmptyMedia == [imageUrls |-> <<>>, videoUrls |-> <<>>, documentUrls |-> <<>>]

\* Lines 624-640: the first path shape that fits decides the kind.
EmbedKindOf(url) ==
    IF isLikelyImageMediaPath(url) THEN "image"
    ELSE IF isLikelyVideoMediaPath(url) THEN "video"
    ELSE IF isLikelyDocumentMediaPath(url) THEN "document"
    ELSE "none"

\* Lines 553-641: imageSet, videoSet and documentSet of an embed document.
EmbedDomSets(embed) ==
    LET fromDom == addCandidateUrls(<<>>, embed.attrs)
        candidateSet ==
            SetAddAll(SetAddAll(SetAddAll(fromDom,
                extractScriptMediaUrls(embed, "image")),
                extractScriptMediaUrls(embed, "video")),
                extractScriptMediaUrls(embed, "document"))
        OfKind(kind) == SelectSeq(candidateSet, LAMBDA url : EmbedKindOf(url) = kind)
    IN [imageUrls |-> OfKind("image"),
        videoUrls |-> OfKind("video"),
        documentUrls |-> OfKind("document")]

extractMediaFromEmbedDom(embed) ==
    LET sets == EmbedDomSets(embed)
    IN [imageUrls |-> Slice(sets.imageUrls, MAX_MEDIA_COUNT),
        videoUrls |-> Slice(sets.videoUrls, MAX_MEDIA_COUNT),
        documentUrls |-> Slice(sets.documentUrls, MAX_MEDIA_COUNT)]

\* Lines 705-713: ogSet, filtered by path shape.
OgImageSet(doc) ==
    SelectSeq(addCandidateUrls(<<>>, doc.ogImage), isLikelyImageMediaPath)

extractOgImageFallback(doc) == Slice(OgImageSet(doc), MAX_MEDIA_COUNT)

\* ------------------------------------------------------ the pages served
\* How many URLs more than MAX_MEDIA_COUNT the largest documents hold.
Surplus == 2

Site(marks, n) == [host |-> "media.licdn.com", marks |-> marks, ext |-> "", n |-> n]

ImageUrl(n) == Site({"/dms/image/"}, n)
DecorativeUrl(n) == Site({"/dms/image/", "company-logo"}, n)
VideoUrl(n) == Site({"/dms/video/"}, n)
PlaybackUrl(n) == Site({"/dms/videoplayback/"}, n)
DocumentUrl(n) == Site({"/dms/document/"}, n)
EmbedUrl(n) == Site({"/embeds/"}, n)
PlainUrl(n) == Site({}, n)

\* A URL on a host outside the allowlist.
ForeignUrl(i) ==
    [host |-> "evil.example", marks |-> {"/dms/image/"}, ext |-> "jpg", n |-> i]

\* Tokens from..to of URLs whose paths hold the fragments `marks`.
Run(marks, from, to) ==
    [i \in 1..(to - from + 1) |-> Str(Site(marks, from + i - 1), FALSE)]

\* An <img> of a post: inside a media container, no excluded class.
PostImage(tokens) ==
    [tokens |-> tokens, excludedClass |-> FALSE, inKnownMediaContainer |-> TRUE,
     hasStrongClassSignal |-> FALSE, width |-> 0, height |-> 0]

ImageRun(from, to) ==
    [i \in 1..(to - from + 1) |-> PostImage(<<Str(ImageUrl(from + i - 1), FALSE)>>)]

\* A handful of elements: a post image (one URL twice, once padded), an
\* avatar, a logo path, a small icon, a foreign host, a large post image
\* outside the containers with a strong class, and image 1 again.
MixedImages ==
    << PostImage(<<Str(ImageUrl(1), FALSE), Str(ImageUrl(1), TRUE)>>),
       [PostImage(<<Str(ImageUrl(2), FALSE)>>) EXCEPT !.excludedClass = TRUE],
       PostImage(<<Str(DecorativeUrl(3), FALSE)>>),
       [PostImage(<<Str(ImageUrl(4), FALSE)>>) EXCEPT !.width = 48],
       PostImage(<<Str(ForeignUrl(5), FALSE)>>),
       [PostImage(<<Str(ImageUrl(4), FALSE), Str(ImageUrl(6), FALSE)>>)
           EXCEPT !.inKnownMediaContainer = FALSE,
                  !.hasStrongClassSignal = TRUE, !.height = 100],
       PostImage(<<Str(ImageUrl(1), FALSE)>>) >>

PlainPage ==
    [title |-> Text("Post | LinkedIn", FALSE), ogTitle |-> Undefined,
     ogDescription |-> Undefined,
     sel |-> << <<Text("Great post", FALSE)>>, <<>> >>,
     images |-> <<>>, videoAttrs |-> <<>>, docAttrs |-> <<>>,
     frameAttrs |-> <<>>, scriptUrls |-> <<>>, ogVideo |-> <<>>,
     ogImage |-> <<>>]

\* Pages that differ in where their text is.
TextPages ==
    {[PlainPage EXCEPT !.sel = <<s1, s2>>, !.ogDescription = d, !.ogTitle = t] :
        s1 \in {<<>>, <<Text("", TRUE)>>,
                <<Text("one", FALSE), Text("one", TRUE), Text("two", FALSE)>>},
        s2 \in {<<>>, <<Text("second", FALSE)>>},
        d \in {Undefined, Text("About the post", TRUE), Text("Sign in to LinkedIn", FALSE)},
        t \in {Undefined, Text("A title", FALSE), Text("Join LinkedIn", FALSE)}}

\* Pages that differ in their images, and pages with embed frames: five
\* frame tokens that leave two frames, and more frames than are fetched.
ImagePages ==
    {[PlainPage EXCEPT !.images = imgs] :
        imgs \in {<<>>, MixedImages, ImageRun(1, MAX_MEDIA_COUNT - 1),
                  ImageRun(1, MAX_MEDIA_COUNT + Surplus)}}
    \cup
    {[PlainPage EXCEPT !.images = ImageRun(1, MAX_MEDIA_COUNT - 1),
                       !.frameAttrs = <<Str(EmbedUrl(1), FALSE), Str(PlainUrl(2), FALSE),
                                        Str(EmbedUrl(1), TRUE), Str(ForeignUrl(4), FALSE),
                                        Str(EmbedUrl(3), FALSE)>>],
     [PlainPage EXCEPT !.frameAttrs = Run({"/embeds/"}, 1, MAX_EMBED_FETCHES + 1)]}

\* Pages that differ in their videos, documents and fallback metadata.
OtherMediaPages ==
    {[PlainPage EXCEPT !.videoAttrs = v, !.docAttrs = d, !.scriptUrls = sc,
                       !.ogVideo = <<Str(VideoUrl(9), FALSE)>>,
                       !.ogImage = og] :
        v \in {<<>>, <<Str(VideoUrl(1), FALSE), Str(ImageUrl(2), FALSE),
                       Str(VideoUrl(1), TRUE)>>},
        d \in {<<>>, Run({"/dms/document/"}, 1, MAX_MEDIA_COUNT + Surplus)},
        sc \in {<<>>, <<Str(PlaybackUrl(3), FALSE), Str(DocumentUrl(4), FALSE),
                        Str(VideoUrl(1), FALSE), Str(ImageUrl(5), FALSE)>>},
        og \in {<<>>, <<Str(ImageUrl(7), FALSE), Str(DecorativeUrl(8), FALSE)>>}}

\* A page without text whose frames are fetched all the same.
TextlessPage ==
    [PlainPage EXCEPT !.sel = << <<>>, <<>> >>,
                      !.frameAttrs = Run({"/embeds/"}, 1, 2)]

Pages == TextPages \cup ImagePages \cup OtherMediaPages \cup {TextlessPage}

\* The documents an embed endpoint may serve.
EmptyEmbed == [attrs |-> <<>>, scriptUrls |-> <<>>]

MixedEmbed ==
    [attrs |-> <<Str(ImageUrl(1), FALSE), Str(VideoUrl(2), FALSE),
                 Str(DecorativeUrl(3), FALSE), Str(ForeignUrl(4), FALSE),
                 Str(ImageUrl(MAX_MEDIA_COUNT + 5), TRUE)>>,
     scriptUrls |-> <<Str(DocumentUrl(5), FALSE), Str(ImageUrl(1), FALSE)>>]

LargeEmbed ==
    [attrs |-> Run({"/dms/image/"}, MAX_MEDIA_COUNT, 2 * MAX_MEDIA_COUNT - 1 + Surplus),
     scriptUrls |-> <<>>]

EmbedDocs == {EmptyEmbed, MixedEmbed, LargeEmbed}

\* What the endpoint serves depends on the frame URL asked for.
EmbedDocsAt(url) ==
    CASE url.u.n = 1 -> {MixedEmbed, LargeEmbed}
      [] url.u.n = 2 -> {EmptyEmbed, MixedEmbed}
      [] OTHER -> {MixedEmbed}

\* The post URLs tried: a post, and three shapes that are none.
PostUrls ==
    { [wellFormed |-> TRUE, host |-> "www.linkedin.com", path |-> "/posts/"],
      [wellFormed |-> FALSE, host |-> "", path |-> ""],
      [wellFormed |-> TRUE, host |-> "evil.example", path |-> "/posts/"],
      [wellFormed |-> TRUE, host |-> "www.linkedin.com", path |-> "/in/"] }

\* utils.js assertValidLinkedInPostUrl: TRUE when it does not throw.
assertValidLinkedInPostUrl(postUrl) ==
    /\ postUrl.wellFormed
    /\ postUrl.host = "www.linkedin.com"
    /\ postUrl.path \in {"/posts/", "/feed/update/"}

\* Every page with what lines 818-829 and 650 compute from it, and every
\* embed document with what line 672 computes from it: tables of the
\* functions' values, evaluated once.
PageScans ==
    {[page |-> page,
      authWall |-> hasAuthWall(page),
      text |-> extractPostText(page),
      media |-> [imageUrls |-> extractImageUrls(page),
                 videoUrls |-> extractVideoUrls(page),
                 documentUrls |-> extractDocumentUrls(page)],
      frameUrls |-> extractEmbedFrameUrls(page),
      ogImages |-> extractOgImageFallback(page)] : page \in Pages}

EmbedScans ==
    {[embed |-> embed, media |-> extractMediaFromEmbedDom(embed)] :
        embed \in EmbedDocs}

\* The statuses a page or embed fetch may answer with.
Statuses == {200, 401, 403, 999, 500}

\* ---------------------------------------------------------------- variables
VARIABLES
    dpc,            \* downloadLinkedInMedia: "idle", "running", "returned", "raised"
    mediaEntries,   \* its argument
    entries,        \* dedupedEntries.slice(0, MAX_DOWNLOAD_COUNT)
    task,           \* per entry: the state of its limit(async () => ...) task
    dqueue,         \* p-limit's queue of tasks not started (indexes into entries)
    dactive,        \* p-limit's activeCount
    dkicks,         \* start microtasks p-limit has scheduled and not yet run
    returned        \* the list the call resolved with

dvars == <<dpc, mediaEntries, entries, task, dqueue, dactive, dkicks, returned>>

VARIABLES
    spc,            \* scrapeLinkedInPost: "idle", "page", "body", "embeds", "done"
    postUrl,        \* its argument
    attempt,        \* withRetries: the number of the running scrapeOnce call
    doc,            \* scrapeOnce: the parsed page ($)
    text,           \* scrapeOnce: extractPostText($)
    pageMedia,      \* scrapeOnce: pageImageUrls, pageVideoUrls, pageDocumentUrls
    frame,          \* extractMediaFromEmbeds: per frame URL, its task
    equeue,         \* p-limit's queue of frame tasks not started
    eactive,        \* p-limit's activeCount
    ekicks,         \* start microtasks scheduled and not yet run
    embedSets,      \* extractMediaFromEmbeds: imageSet, videoSet, documentSet
    embedMedia,     \* scrapeOnce: what extractMediaFromEmbeds returned
    mergedSets,     \* scrapeOnce: imageSet, videoSet, documentSet
    outcome,        \* how the call settled: a result or an error
    trace           \* what the call did, in order (page fetches, observer calls)

svars == <<spc, postUrl, attempt, doc, text, pageMedia, frame, equeue, eactive,
           ekicks, embedSets, embedMedia, mergedSets, outcome, trace>>

\* --------------------------------------------------- the request lists tried
NoType == "undefined"

\* The media URL of request position i: the path shapes and suffixes vary.
MediaUrl(i) ==
    [host |-> "media.licdn.com",
     marks |-> CASE i % 5 = 1 -> {"/dms/image/"}
                 [] i % 5 = 2 -> {"/dms/video/"}
                 [] i % 5 = 3 -> {}
                 [] i % 5 = 4 -> {"/dms/image/", "profile-displayphoto"}
                 [] OTHER -> {"/dms/document/"},
     ext |-> CASE i % 5 = 2 -> "mp4"
               [] i % 5 = 3 -> "png"
               [] OTHER -> "",
     n |-> i]

\* What a caller may put at position i of the list: a URL of its own, the
\* URL of position 1 again (padded, with another type), a URL on a foreign
\* host, or an entry without url.
RequestAt(i, shape) ==
    CASE shape = "fresh" ->
           [url |-> Str(MediaUrl(i), FALSE),
            type |-> CASE i % 3 = 1 -> "image"
                       [] i % 3 = 2 -> NoType
                       [] OTHER -> "document"]
      [] shape = "again" -> [url |-> Str(MediaUrl(1), TRUE), type |-> "video"]
      [] shape = "foreign" -> [url |-> Str(ForeignUrl(i), FALSE), type |-> "image"]
      [] OTHER -> [url |-> Undefined, type |-> "image"]

RequestShapes == {"fresh", "again", "foreign", "missing"}

\* The first two positions take every shape; a later one holds a URL of its
\* own or one other shape.
RequestShapesAt(i) ==
    CASE i <= 2 -> RequestShapes
      [] i = 3 -> {"fresh", "foreign"}
      [] i = 4 -> {"fresh", "missing"}
      [] OTHER -> {"fresh", "again"}

RequestLists ==
    UNION {{[i \in 1..n |-> RequestAt(i, shapes[i])] :
              shapes \in {f \in [1..n -> RequestShapes] :
                             \A i \in 1..n : f[i] \in RequestShapesAt(i)}} :
           n \in 0..MaxRequests}

\* Lists that hold as many distinct admissible URLs as are downloaded, and
\* more: URLs of their own throughout, or with the first URL again at
\* position 2, a foreign host at 3 and an entry without url at 4.
LongRequestLists ==
    {[i \in 1..MAX_DOWNLOAD_COUNT |-> RequestAt(i, "fresh")],
     [i \in 1..(MAX_DOWNLOAD_COUNT + Surplus) |-> RequestAt(i, "fresh")],
     [i \in 1..(MAX_DOWNLOAD_COUNT + Surplus + 3) |->
         RequestAt(i, CASE i = 2 -> "again"
                        [] i = 3 -> "foreign"
                        [] i = 4 -> "missing"
                        [] OTHER -> "fresh")]}

\* What the network may answer to a media fetch.
ResponseMimes == {"image/jpeg", "text/html", "", "application/json"}

\* ------------------------------------------------- downloadLinkedInMedia
\* AdmitsEntry without the allowed-media-URL test.
AdmitsEntryUnfiltered(url, seenUrls) ==
    ~(url = EmptyString \/ url \in seenUrls)

\* The test of line 880, negated: the entry is kept.
AdmitsEntry(url, seenUrls) ==
    ~(url = EmptyString \/ url \in seenUrls \/ ~isAllowedLinkedInMediaUrl(url))

RECURSIVE DedupeLoop(_, _, _)
DedupeLoop(list, seenUrls, dedupedEntries) ==
    IF list = <<>> THEN dedupedEntries
    ELSE LET entry == Head(list)
             url == normalizeWhitespace(entry.url)
         IN IF ~AdmitsEntry(url, seenUrls)
            THEN DedupeLoop(Tail(list), seenUrls, dedupedEntries)
            ELSE DedupeLoop(Tail(list), seenUrls \cup {url},
                            Append(dedupedEntries,
                                   [url |-> url,
                                    requestedType |->
                                        IF entry.type = NoType THEN "image"
                                        ELSE entry.type]))

DedupedEntries(list) == DedupeLoop(list, {}, <<>>)

\* Task results: nothing yet, the catch block's null, a record, a rejection.
Pending == [kind |-> "pending"]
Null == [kind |-> "null"]
Thrown == [kind |-> "thrown"]

QueuedTask == [st |-> "queued", net |-> "none", mime |-> "", out |-> Pending]

\* DownloadRecord with the filename numbered by arrival: the count of the
\* tasks settled so far stands in for the index of the entry.
DownloadRecordByArrival(i, mimeType) ==
    LET entry == entries[i]
        mediaType == inferMediaType(entry.requestedType, mimeType, entry.url)
        arrived == Cardinality({j \in DOMAIN task : task[j].st = "settled"})
    IN [kind |-> "media", url |-> entry.url, mediaType |-> mediaType,
        mimeType |-> mimeType,
        filename |-> mediaFilename(arrived, mediaType, mimeType, entry.url)]

\* The record of lines 925-931 for entries[i] (i is 1-based, index i - 1).
DownloadRecord(i, mimeType) ==
    LET entry == entries[i]
        mediaType == inferMediaType(entry.requestedType, mimeType, entry.url)
    IN [kind |-> "media", url |-> entry.url, mediaType |-> mediaType,
        mimeType |-> mimeType,
        filename |-> mediaFilename(i - 1, mediaType, mimeType, entry.url)]

\* OnDownloadFailure without the catch block: the task rejects.
OnDownloadFailureUncaught == Thrown

\* The catch block of lines 932-935: log, and resolve the task with null.
OnDownloadFailure == Null

\* DownloadLimit with a pool one slot too large.
DownloadLimitOneMore == DOWNLOAD_CONCURRENCY + 1

\* p-limit's pool size for the call (line 895).
DownloadLimit == DOWNLOAD_CONCURRENCY

\* p-limit run(): activeCount++ and the task's function runs up to its
\* first await, the fetch.
StartHead(t, q) == [t EXCEPT ![Head(q)].st = "fetching"]

\* A task settles with `out`; p-limit's next() then frees the slot and, when
\* a task is queued, starts it at once.
SettleTask(i, net, mime, out) ==
    LET t == [task EXCEPT ![i] = [st |-> "settled", net |-> net,
                                  mime |-> mime, out |-> out]]
    IN /\ IF dqueue # <<>>
          THEN /\ task' = StartHead(t, dqueue)
               /\ dqueue' = Tail(dqueue)
               /\ dactive' = dactive
          ELSE /\ task' = t
               /\ dqueue' = dqueue
               /\ dactive' = dactive - 1
       /\ UNCHANGED <<dpc, mediaEntries, entries, dkicks, returned>>

\* Lines 874-898: de-duplicate, filter, cap, and hand every entry to limit().
DownloadCall(list) ==
    /\ dpc = "idle"
    /\ spc = "idle"
    /\ UNCHANGED svars
    /\ mediaEntries' = list
    /\ LET deduped == DedupedEntries(list)
           kept == Slice(deduped, MAX_DOWNLOAD_COUNT)
       IN IF Len(deduped) = 0
          THEN /\ dpc' = "returned"
               /\ returned' = <<>>
               /\ UNCHANGED <<entries, task, dqueue, dkicks>>
          ELSE /\ dpc' = "running"
               /\ entries' = kept
               /\ task' = [i \in 1..Len(kept) |-> QueuedTask]
               /\ dqueue' = [i \in 1..Len(kept) |-> i]
               /\ dkicks' = Len(kept)
               /\ UNCHANGED returned
    /\ UNCHANGED dactive

\* p-limit enqueue(): after a microtask turn, start the head of the queue if
\* a slot is free.
DownloadKick ==
    /\ dpc = "running"
    /\ UNCHANGED svars
    /\ dkicks > 0
    /\ dkicks' = dkicks - 1
    /\ IF dactive < DownloadLimit /\ dqueue # <<>>
       THEN /\ task' = StartHead(task, dqueue)
            /\ dqueue' = Tail(dqueue)
            /\ dactive' = dactive + 1
       ELSE UNCHANGED <<task, dqueue, dactive>>
    /\ UNCHANGED <<dpc, mediaEntries, entries, returned>>

\* Lines 900-910: fetchWithRedirectGuard settles. It throws (transport
\* error, timeout, blocked redirect) or answers; a status outside 2xx throws.
DownloadResponse(i) ==
    /\ dpc = "running"
    /\ UNCHANGED svars
    /\ dkicks = 0
    /\ i \in DOMAIN task
    /\ task[i].st = "fetching"
    /\ \/ \E failure \in {"network", "timeout", "blocked_redirect", "status"} :
            SettleTask(i, "failed", "", OnDownloadFailure)
       \/ /\ task' = [task EXCEPT ![i].st = "reading"]
          /\ UNCHANGED <<dpc, mediaEntries, entries, dqueue, dactive, dkicks,
                         returned>>

\* Lines 900-910 on a network that refuses every media fetch: the fetch
\* throws or answers with a status outside 2xx.
DownloadRefused(i) ==
    /\ DownloadResponse(i)
    /\ task'[i].st = "settled"

\* Lines 911-935: response.arrayBuffer() settles: the read fails, the body
\* is empty, or the bytes arrive and the entry is classified by the
\* content-type header the response carried.
DownloadBody(i) ==
    /\ dpc = "running"
    /\ UNCHANGED svars
    /\ i \in DOMAIN task
    /\ task[i].st = "reading"
    /\ \/ \E failure \in {"read_error", "empty"} :
            SettleTask(i, "failed", "", OnDownloadFailure)
       \/ \E mimeType \in ResponseMimes :
            LET mediaType == inferMediaType(entries[i].requestedType, mimeType,
                                            entries[i].url)
            IN SettleTask(i, "delivered", mimeType,
                          IF mediaType = NoMediaType THEN OnDownloadFailure
                          ELSE DownloadRecord(i, mimeType))

\* Lines 939-940: Promise.all resolves once every task has, in the order of
\* the task list, or rejects with the first rejection; filter(Boolean).
DownloadReturn ==
    /\ dpc = "running"
    /\ UNCHANGED svars
    /\ \/ \A i \in DOMAIN task : task[i].st = "settled"
       \/ \E i \in DOMAIN task : task[i].out = Thrown
    /\ IF \E i \in DOMAIN task : task[i].out = Thrown
       THEN dpc' = "raised" /\ UNCHANGED returned
       ELSE /\ dpc' = "returned"
            /\ returned' = SelectSeq([i \in DOMAIN task |-> task[i].out],
                                     LAMBDA r : r # Null)
    /\ UNCHANGED <<mediaEntries, entries, task, dqueue, dactive, dkicks>>

DownloadInit ==
    /\ dpc = "idle"
    /\ mediaEntries = <<>>
    /\ entries = <<>>
    /\ task = <<>>
    /\ dqueue = <<>>
    /\ dactive = 0
    /\ dkicks = 0
    /\ returned = <<>>

\* ------------------------------------------------------ scrapeLinkedInPost
LinkedInExtractionError(code, text_, status) ==
    [name |-> "LinkedInExtractionError", code |-> code,
     message |-> [text |-> text_, status |-> status]]

\* What fetchWithRedirectGuard or a body read throws: no extraction error.
FetchError(why) ==
    [name |-> "Error", code |-> "none", message |-> [text |-> why, status |-> 0]]

NoError == [name |-> "", code |-> "", message |-> [text |-> "", status |-> 0]]

Event(ev, n, status, error) ==
    [ev |-> ev, attempt |-> n, status |-> status, error |-> error]

\* The observer of lines 865-870: it logs the error and the attempt number.
onRetry(error, attemptNumber) == Event("onRetry", attemptNumber, 0, error)

NoDoc == [kind |-> "none"]
NoOutcome == [kind |-> "none"]

\* A frame task: its URL, where it stands, the parsed frame ($embed) once the
\* body has arrived, and what the task resolved with.
QueuedFrame(url) ==
    [url |-> url, st |-> "queued", net |-> "none", embed |-> NoDoc,
     out |-> EmptyMedia]

\* PassesValidation without the call of line 858: every URL passes.
PassesValidationAlways(url) == TRUE

\* The try/catch of lines 857-861: TRUE when the URL passes.
PassesValidation(url) == assertValidLinkedInPostUrl(url)

\* ProtectedStatuses without the bot-challenge status.
ProtectedStatusesWithout999 == {401, 403}

\* Line 801: the statuses that mean a private or protected post.
ProtectedStatuses == {401, 403, 999}

\* response.ok
ResponseOk(status) == status >= 200 /\ status <= 299

\* OnEmbedFailure without the catch block: the frame task rejects.
OnEmbedFailureUncaught == Thrown

\* The catch block of lines 673-676.
OnEmbedFailure == EmptyMedia

\* p-limit's pool size for the frames of an attempt (line 655).
EmbedLimit == EMBED_FETCH_CONCURRENCY

\* The locals of scrapeOnce and extractMediaFromEmbeds, before they are set.
FreshLocals ==
    /\ doc' = NoDoc
    /\ text' = <<>>
    /\ pageMedia' = EmptyMedia
    /\ frame' = <<>>
    /\ equeue' = <<>>
    /\ eactive' = 0
    /\ ekicks' = 0
    /\ embedSets' = EmptyMedia
    /\ embedMedia' = EmptyMedia
    /\ mergedSets' = EmptyMedia

KeepLocals ==
    UNCHANGED <<doc, text, pageMedia, frame, equeue, eactive, ekicks, embedSets,
                embedMedia, mergedSets>>

\* utils.js withRetries, its catch: scrapeOnce threw `error` after the
\* events `sofar`. With the budget used up, or a terminal error, the error
\* is thrown on as it is; else the observer is called with the number of
\* the failed attempt and scrapeOnce is called again, which starts with the
\* page fetch.
Rethrow(error, sofar) ==
    LET failed == Append(sofar, Event("failed", attempt, 0, error))
    IN IF attempt > RETRY_COUNT \/ error.code = "INVALID_URL"
       THEN /\ spc' = "done"
            /\ outcome' = [kind |-> "error", error |-> error]
            /\ trace' = failed
            /\ UNCHANGED <<postUrl, attempt>>
            /\ KeepLocals
       ELSE /\ spc' = "page"
            /\ attempt' = attempt + 1
            /\ trace' = failed \o <<onRetry(error, attempt),
                                    Event("fetch", attempt + 1, 0, NoError)>>
            /\ UNCHANGED <<postUrl, outcome>>
            /\ FreshLocals

\* Lines 856-863 and 785-799: validate; then withRetries calls scrapeOnce,
\* which issues the page fetch.
ScrapeCall(url) ==
    /\ spc = "idle"
    /\ dpc = "idle"
    /\ UNCHANGED dvars
    /\ postUrl' = url
    /\ IF ~PassesValidation(url)
       THEN /\ spc' = "done"
            /\ outcome' = [kind |-> "error",
                           error |-> LinkedInExtractionError("INVALID_URL",
                                         "Invalid LinkedIn post URL", 0)]
            /\ UNCHANGED <<attempt, trace>>
       ELSE /\ spc' = "page"
            /\ attempt' = 1
            /\ trace' = <<Event("fetch", 1, 0, NoError)>>
            /\ UNCHANGED outcome
    /\ KeepLocals

\* Lines 794-813: the page fetch settles.
ScrapePageResponse ==
    /\ spc = "page"
    /\ UNCHANGED dvars
    /\ \/ Rethrow(FetchError("timeout"), trace)
       \/ \E status \in Statuses :
            LET seen == Append(trace, Event("response", attempt, status, NoError))
            IN IF status \in ProtectedStatuses
               THEN Rethrow(LinkedInExtractionError("PRIVATE_OR_PROTECTED",
                                "LinkedIn returned", status), seen)
               ELSE IF ~ResponseOk(status)
               THEN Rethrow(LinkedInExtractionError("SCRAPE_FAILED",
                                "LinkedIn returned", status), seen)
               ELSE /\ spc' = "body"
                    /\ trace' = seen
                    /\ UNCHANGED <<postUrl, attempt, outcome>>
                    /\ KeepLocals

\* Lines 815-829 and 650-678: the body arrives and is parsed; the text and
\* the page's media are extracted and every embed frame is handed to limit().
ScrapePageBody ==
    /\ spc = "body"
    /\ UNCHANGED dvars
    /\ \/ Rethrow(FetchError("timeout"), trace)
       \/ \E scan \in PageScans :
            LET read == Append(trace, Event("body", attempt, 0, NoError))
                page == scan.page
                frameUrls == scan.frameUrls
            IN IF scan.authWall
               THEN Rethrow(LinkedInExtractionError("PRIVATE_OR_PROTECTED",
                                "LinkedIn page requires authentication", 0), read)
               ELSE /\ spc' = "embeds"
                    /\ trace' = read
                    /\ doc' = page
                    /\ text' = scan.text
                    /\ pageMedia' = scan.media
                    /\ frame' = [i \in 1..Len(frameUrls) |-> QueuedFrame(frameUrls[i])]
                    /\ equeue' = [i \in 1..Len(frameUrls) |-> i]
                    /\ ekicks' = Len(frameUrls)
                    /\ UNCHANGED <<postUrl, attempt, outcome, eactive, embedSets,
                                   embedMedia, mergedSets>>

\* p-limit enqueue(), for the frame pool.
EmbedKick ==
    /\ spc = "embeds"
    /\ UNCHANGED dvars
    /\ ekicks > 0
    /\ ekicks' = ekicks - 1
    /\ IF eactive < EmbedLimit /\ equeue # <<>>
       THEN /\ frame' = [frame EXCEPT ![Head(equeue)].st = "fetching"]
            /\ equeue' = Tail(equeue)
            /\ eactive' = eactive + 1
       ELSE UNCHANGED <<frame, equeue, eactive>>
    /\ UNCHANGED <<spc, postUrl, attempt, doc, text, pageMedia, embedSets,
                   embedMedia, mergedSets, outcome, trace>>

\* A frame task settles with `out`; p-limit's next() frees the slot and
\* starts the head of the queue.
SettleFrame(i, net, embed, out) ==
    LET f == [frame EXCEPT ![i].st = "settled", ![i].net = net,
                           ![i].embed = embed, ![i].out = out]
    IN /\ IF equeue # <<>>
          THEN /\ frame' = [f EXCEPT ![Head(equeue)].st = "fetching"]
               /\ equeue' = Tail(equeue)
               /\ eactive' = eactive
          ELSE /\ frame' = f
               /\ equeue' = equeue
               /\ eactive' = eactive - 1
       /\ UNCHANGED <<spc, postUrl, attempt, doc, text, pageMedia, ekicks,
                      embedSets, embedMedia, mergedSets, outcome, trace>>

\* Lines 659-668: the frame fetch settles.
EmbedResponse(i) ==
    /\ spc = "embeds"
    /\ UNCHANGED dvars
    /\ ekicks = 0
    /\ i \in DOMAIN frame
    /\ frame[i].st = "fetching"
    /\ \/ \E failure \in {"timeout", "blocked_redirect", "status"} :
            SettleFrame(i, "failed", NoDoc, OnEmbedFailure)
       \/ /\ frame' = [frame EXCEPT ![i].st = "reading"]
          /\ UNCHANGED <<spc, postUrl, attempt, doc, text, pageMedia, equeue,
                         eactive, ekicks, embedSets, embedMedia, mergedSets,
                         outcome, trace>>

\* Lines 670-676: the frame's body arrives and is scanned, or the read fails.
EmbedBody(i) ==
    /\ spc = "embeds"
    /\ UNCHANGED dvars
    /\ i \in DOMAIN frame
    /\ frame[i].st = "reading"
    /\ \/ SettleFrame(i, "failed", NoDoc, OnEmbedFailure)
       \/ \E scan \in EmbedScans :
            /\ scan.embed \in EmbedDocsAt(frame[i].url)
            /\ SettleFrame(i, "delivered", scan.embed, scan.media)

\* The concatenation of field `key` of every settled frame, in frame order.
RECURSIVE FrameUrls(_, _)
FrameUrls(frames, key) ==
    IF frames = <<>> THEN <<>>
    ELSE Head(frames).out[key] \o FrameUrls(Tail(frames), key)

\* Lines 831-833: one merged set.
MergeSet(pageUrls, embedUrls) == NewSet(pageUrls \o embedUrls)

\* ResultList without the slice.
ResultListUncapped(urlSet) == urlSet

\* Lines 850-852: a list of the result.
ResultList(urlSet) == Slice(urlSet, MAX_MEDIA_COUNT)

\* Lines 698-700: a list returned by extractMediaFromEmbeds.
EmbedList(urlSet) == Slice(urlSet, MAX_MEDIA_COUNT)

\* Promise.race in the place of Promise.all: settled with the first task.
PromiseRaceSettled ==
    frame = <<>> \/ \E i \in DOMAIN frame : frame[i].st = "settled"

\* Line 680, await Promise.all(...): every frame task has resolved.
PromiseAllResolved == \A i \in DOMAIN frame : frame[i].st = "settled"

\* Lines 680-701 and 831-853: Promise.all of the frame tasks resolves (it
\* would reject with the first rejection of a task); the frame results are
\* merged in frame order, then with the page's lists.
ScrapeFinish ==
    /\ spc = "embeds"
    /\ UNCHANGED dvars
    /\ ekicks = 0
    /\ \/ PromiseAllResolved
       \/ \E i \in DOMAIN frame : frame[i].out = Thrown
    /\ IF \E i \in DOMAIN frame : frame[i].out = Thrown
       THEN Rethrow(FetchError("Embed fetch failed"), trace)
       ELSE
       LET eSets == [imageUrls |-> NewSet(FrameUrls(frame, "imageUrls")),
                     videoUrls |-> NewSet(FrameUrls(frame, "videoUrls")),
                     documentUrls |-> NewSet(FrameUrls(frame, "documentUrls"))]
           eMedia == [imageUrls |-> EmbedList(eSets.imageUrls),
                      videoUrls |-> EmbedList(eSets.videoUrls),
                      documentUrls |-> EmbedList(eSets.documentUrls)]
           sets == [imageUrls |-> MergeSet(pageMedia.imageUrls, eMedia.imageUrls),
                    videoUrls |-> MergeSet(pageMedia.videoUrls, eMedia.videoUrls),
                    documentUrls |->
                        MergeSet(pageMedia.documentUrls, eMedia.documentUrls)]
           merged == IF /\ Len(sets.imageUrls) = 0
                        /\ Len(sets.videoUrls) = 0
                        /\ Len(sets.documentUrls) = 0
                     THEN [sets EXCEPT !.imageUrls =
                               SetAddAll(@, extractOgImageFallback(doc))]
                     ELSE sets
       IN IF text = <<>>
          THEN Rethrow(LinkedInExtractionError("TEXT_NOT_FOUND",
                           "Could not extract post text", 0), trace)
          ELSE /\ spc' = "done"
               /\ embedSets' = eSets
               /\ embedMedia' = eMedia
               /\ mergedSets' = merged
               /\ outcome' = [kind |-> "result",
                              result |-> [text |-> text,
                                          imageUrls |-> ResultList(merged.imageUrls),
                                          videoUrls |-> ResultList(merged.videoUrls),
                                          documentUrls |->
                                              ResultList(merged.documentUrls)]]
               /\ trace' = Append(trace, Event("returned", attempt, 0, NoError))
               /\ UNCHANGED <<postUrl, attempt, doc, text, pageMedia, frame,
                              equeue, eactive, ekicks>>

ScrapeInit ==
    /\ spc = "idle"
    /\ postUrl = [wellFormed |-> FALSE, host |-> "", path |-> ""]
    /\ attempt = 0
    /\ doc = NoDoc
    /\ text = <<>>
    /\ pageMedia = EmptyMedia
    /\ frame = <<>>
    /\ equeue = <<>>
    /\ eactive = 0
    /\ ekicks = 0
    /\ embedSets = EmptyMedia
    /\ embedMedia = EmptyMedia
    /\ mergedSets = EmptyMedia
    /\ outcome = NoOutcome
    /\ trace = <<>>

\* ------------------------------------------------------- specifications
vars == <<dvars, svars>>

Init == DownloadInit /\ ScrapeInit

\* One call runs at a time: the caller awaits scrapeLinkedInPost before it
\* asks for downloads.
Next ==
    \/ \E list \in RequestLists : DownloadCall(list)
    \/ DownloadKick
    \/ \E i \in 1..MaxRequests : DownloadResponse(i)
    \/ \E i \in 1..MaxRequests : DownloadBody(i)
    \/ DownloadReturn
    \/ \E url \in PostUrls : ScrapeCall(url)
    \/ ScrapePageResponse
    \/ ScrapePageBody
    \/ EmbedKick
    \/ \E i \in 1..MAX_EMBED_FETCHES : EmbedResponse(i)
    \/ \E i \in 1..MAX_EMBED_FETCHES : EmbedBody(i)
    \/ ScrapeFinish

Spec == Init /\ [][Next]_vars

\* downloadLinkedInMedia alone, called with lists short and long, on a
\* network that refuses every media fetch.
AdmissionNext ==
    \/ \E list \in RequestLists \cup LongRequestLists : DownloadCall(list)
    \/ DownloadKick
    \/ \E i \in 1..(MAX_DOWNLOAD_COUNT + 1) : DownloadRefused(i)
    \/ DownloadReturn

AdmissionSpec == Init /\ [][AdmissionNext]_vars

\* ------------------------------------------------------------------ claims
\* The normalized URL of request j of the call's argument.
RequestUrl(j) == normalizeWhitespace(mediaEntries[j].url)

\* The 1-based position of url in the request list once de-duplicated and
\* filtered: the number of distinct admissible URLs up to its first request.
RequestPosition(url) ==
    LET first == CHOOSE j \in DOMAIN mediaEntries :
                     /\ RequestUrl(j) = url
                     /\ \A k \in 1..(j - 1) : RequestUrl(k) # url
        before == {k \in 1..first : isAllowedLinkedInMediaUrl(RequestUrl(k))}
    IN Cardinality({RequestUrl(k) : k \in before})

\* C1: the filename index of every record a download task produces, and of
\* every record downloadLinkedInMedia returns, is the 1-based position of
\* its URL in the de-duplicated, filtered request list, whatever the order
\* in which the fetches complete; the returned list is ordered by it.
C1_FilenameIndexIsRequestPosition ==
    /\ \A i \in DOMAIN task :
          task[i].out.kind = "media" =>
              task[i].out.filename.index = RequestPosition(task[i].out.url)
    /\ dpc = "returned" =>
          /\ \A k \in DOMAIN returned :
                returned[k].filename.index = RequestPosition(returned[k].url)
          /\ \A k, l \in DOMAIN returned :
                k < l => returned[k].filename.index < returned[l].filename.index

\* C1 witness: the second request's fetch has completed and produced its
\* record, numbered 2, while the first request's fetch is still in flight.
C1_LaterRequestCompletedFirst ==
    /\ dpc = "running"
    /\ Len(entries) >= 2
    /\ task[1].st \in {"fetching", "reading"}
    /\ task[2].out.kind = "media"
    /\ task[2].out.filename.index = 2

\* The entries whose fetch delivered a body that inferMediaType classifies.
Succeeded ==
    {i \in DOMAIN task :
        /\ task[i].net = "delivered"
        /\ inferMediaType(entries[i].requestedType, task[i].mime, entries[i].url)
               # NoMediaType}

\* C2: downloadLinkedInMedia never raises; it returns, without any null,
\* exactly one record per entry whose fetch and classification succeeded,
\* and every admitted entry was fetched whatever happened to its siblings.
C2_ReturnsExactlyTheSuccesses ==
    /\ dpc # "raised"
    /\ dpc = "returned" =>
          /\ \A k \in DOMAIN returned : returned[k].kind = "media"
          /\ \A i \in DOMAIN task : task[i].net # "none"
          /\ Len(returned) = Cardinality(Succeeded)
          /\ \A i \in Succeeded :
                \E k \in DOMAIN returned : returned[k].url = entries[i].url

\* C2 witness: a call returned the record of one entry although a sibling's
\* fetch failed and another sibling's content type was unsupported.
C2_PartialSuccess ==
    /\ dpc = "returned"
    /\ Len(returned) >= 1
    /\ \E i \in DOMAIN task : task[i].net = "failed"
    /\ \E i \in DOMAIN task : task[i].net = "delivered" /\ task[i].out = Null

\* The tasks of a pool whose fetch has started and has not settled.
InFlight(t) == {i \in DOMAIN t : t[i].st \in {"fetching", "reading"}}

\* The tasks that leave the queue in the step.
Started(t, u) ==
    {i \in DOMAIN t \cap DOMAIN u : t[i].st = "queued" /\ u[i].st = "fetching"}

\* A task of the pool settles in the step: its slot is released.
Released(t, u) ==
    \E j \in InFlight(t) : j \in DOMAIN u /\ u[j].st = "settled"

\* C3: in every reachable state at most 3 media fetches of a download call
\* and at most 2 embed-frame fetches of a scrape attempt are in flight, and
\* in every step a queued fetch starts only when its pool has a free slot or
\* a fetch of the pool settles in that step and releases its slot.
C3_PoolsRespected ==
    /\ [](/\ Cardinality(InFlight(task)) <= 3
          /\ Cardinality(InFlight(frame)) <= 2)
    /\ [][/\ Started(task, task') # {} =>
                \/ Cardinality(InFlight(task)) < 3
                \/ Released(task, task')
          /\ Started(frame, frame') # {} =>
                \/ Cardinality(InFlight(frame)) < 2
                \/ Released(frame, frame')]_vars

\* C3 witness: three media fetches are in flight and a fourth entry waits in
\* the queue although its start had its turn.
C3_FourthWaitsForASlot ==
    /\ dpc = "running"
    /\ dkicks = 0
    /\ Cardinality(InFlight(task)) = 3
    /\ \E i \in DOMAIN task : task[i].st = "queued"

\* C4: a call with a URL that fails the post-URL validation fails with
\* INVALID_URL, and no page fetch was issued, no attempt was started and
\* the retry observer was not called.
C4_InvalidUrlFailsBeforeAnyFetch ==
    (spc # "idle" /\ ~assertValidLinkedInPostUrl(postUrl)) =>
        /\ spc = "done"
        /\ outcome.kind = "error"
        /\ outcome.error.code = "INVALID_URL"
        /\ trace = <<>>
        /\ attempt = 0
        /\ frame = <<>>

\* C4 witness: a call with a post URL on a foreign host has failed with
\* INVALID_URL.
C4_ForeignPostUrlRejected ==
    /\ spc = "done"
    /\ postUrl.host = "evil.example"
    /\ outcome.kind = "error"
    /\ outcome.error.code = "INVALID_URL"

\* The events of one kind, in order.
Events(ev) == SelectSeq(trace, LAMBDA e : e.ev = ev)

HasEvent(ev, n) ==
    \E k \in DOMAIN trace : trace[k].ev = ev /\ trace[k].attempt = n

\* C5: once attempts 1 and 2 have failed, a third attempt is made, the
\* observer has been called exactly twice, with attempt numbers 1 and 2 in
\* that order, each call right after the failure it reports (with that
\* failure's error) and before the next attempt's page fetch; and when
\* attempt 3 succeeds the call returns that attempt's result.
C5_RetrySequence ==
    (HasEvent("failed", 1) /\ HasEvent("failed", 2)) =>
        /\ HasEvent("fetch", 3)
        /\ Len(Events("onRetry")) = 2
        /\ Events("onRetry")[1].attempt = 1
        /\ Events("onRetry")[2].attempt = 2
        /\ \A k \in DOMAIN trace :
              trace[k].ev = "onRetry" =>
                  /\ k > 1
                  /\ trace[k - 1].ev = "failed"
                  /\ trace[k - 1].attempt = trace[k].attempt
                  /\ trace[k - 1].error = trace[k].error
                  /\ k < Len(trace)
                  /\ trace[k + 1].ev = "fetch"
                  /\ trace[k + 1].attempt = trace[k].attempt + 1
        /\ HasEvent("returned", 3) =>
              /\ spc = "done"
              /\ outcome.kind = "result"
              /\ trace[Len(trace)] = Event("returned", 3, 0, NoError)
              /\ outcome.result.text = extractPostText(doc)

\* C5 witness: attempts 1 and 2 failed, attempt 3 succeeded and the call
\* returned a result.
C5_SucceededOnThirdAttempt ==
    /\ spc = "done"
    /\ outcome.kind = "result"
    /\ HasEvent("failed", 1)
    /\ HasEvent("failed", 2)
    /\ HasEvent("returned", 3)

\* C6: a call with a valid post URL makes at most 3 attempts; when it ends
\* with an error, three attempts have failed and the error it raises is the
\* very error of the third attempt.
C6_RetryBudget ==
    /\ Len(Events("fetch")) <= 3
    /\ attempt <= 3
    /\ (spc = "done" /\ assertValidLinkedInPostUrl(postUrl)
            /\ outcome.kind = "error") =>
          /\ Len(Events("failed")) = 3
          /\ trace[Len(trace)].ev = "failed"
          /\ trace[Len(trace)].attempt = 3
          /\ outcome.error = trace[Len(trace)].error

\* C6 witness: three attempts failed with three different codes and the
\* call raised the third.
C6_ThreeDifferentFailures ==
    /\ spc = "done"
    /\ outcome.kind = "error"
    /\ Len(Events("failed")) = 3
    /\ Events("failed")[1].error.code = "PRIVATE_OR_PROTECTED"
    /\ Events("failed")[2].error.code = "SCRAPE_FAILED"
    /\ Events("failed")[3].error.code = "TEXT_NOT_FOUND"
    /\ outcome.error.code = "TEXT_NOT_FOUND"

\* The page-fetch responses with status 401, 403 or 999.
ProtectedResponses ==
    {k \in DOMAIN trace :
        trace[k].ev = "response" /\ trace[k].status \in {401, 403, 999}}

\* C7 as stated: once a page fetch was answered with 401, 403 or 999, the
\* call as a whole fails with PRIVATE_OR_PROTECTED.
C7_ProtectedStatusFailsTheCall ==
    (spc = "done" /\ ProtectedResponses # {}) =>
        /\ outcome.kind = "error"
        /\ outcome.error.code = "PRIVATE_OR_PROTECTED"

\* C7, amended: the attempt that receives status 401, 403 or 999 raises
\* PRIVATE_OR_PROTECTED with that status, its body is never read and
\* nothing is extracted or fetched for it; the failure is retried like any
\* other, and the call fails with that error when the attempt was the third.
C7_ProtectedStatusFailsItsAttempt ==
    \A k \in ProtectedResponses :
        /\ k < Len(trace)
        /\ trace[k + 1].ev = "failed"
        /\ trace[k + 1].attempt = trace[k].attempt
        /\ trace[k + 1].error =
               LinkedInExtractionError("PRIVATE_OR_PROTECTED", "LinkedIn returned",
                                       trace[k].status)
        /\ ~HasEvent("body", trace[k].attempt)
        /\ k + 3 >= Len(trace) =>
              doc = NoDoc /\ text = <<>> /\ pageMedia = EmptyMedia /\ frame = <<>>
        /\ trace[k].attempt < 3 => HasEvent("fetch", trace[k].attempt + 1)
        /\ trace[k].attempt = 3 =>
              /\ spc = "done"
              /\ outcome = [kind |-> "error", error |-> trace[k + 1].error]

\* C7 witness: the third attempt was answered with 999 and the call failed
\* with PRIVATE_OR_PROTECTED.
C7_BotChallengeOnLastAttempt ==
    /\ spc = "done"
    /\ outcome.kind = "error"
    /\ outcome.error.code = "PRIVATE_OR_PROTECTED"
    /\ \E k \in ProtectedResponses : trace[k].status = 999 /\ trace[k].attempt = 3

\* The entries whose fetch was issued.
Fetched == {i \in DOMAIN task : task[i].st # "queued"}

\* The path shapes one of which every list of the extraction layer asks of
\* its URLs (lines 262-276, 336-356, 406-410, 497-501, 624-640, 709-713).
SurvivesExtraction(url) ==
    /\ isAllowedLinkedInMediaUrl(url)
    /\ \/ isLikelyImageMediaPath(url)
       \/ isLikelyVideoMediaPath(url)
       \/ isLikelyDocumentMediaPath(url)

\* C8 as stated: every URL downloadLinkedInMedia fetches would have survived
\* the extraction layer's filtering into one of its three lists.
C8_FetchesOnlyWhatExtractionKeeps ==
    \A i \in Fetched : SurvivesExtraction(entries[i].url)

\* C8, amended: every URL downloadLinkedInMedia fetches passes the validator
\* of the extraction layer's candidate collection (addCandidateUrl admits
\* it), and no fetch is issued for a request URL that addCandidateUrl
\* rejects; the path-shape filters of the extraction lists are not applied.
C8_FetchesOnlyWhatTheValidatorAdmits ==
    /\ \A i \in Fetched :
          addCandidateUrl(<<>>, entries[i].url) = <<entries[i].url>>
    /\ dpc # "idle" =>
          \A j \in DOMAIN mediaEntries :
              addCandidateUrl(<<>>, mediaEntries[j].url) = <<>> =>
                  \A i \in DOMAIN entries : entries[i].url # RequestUrl(j)

\* C8 witness: the list held a URL on a foreign host, which no task fetches,
\* and a URL on an allowed host with no media path shape, whose fetch was
\* issued.
C8_ShapelessUrlFetched ==
    /\ \E j \in DOMAIN mediaEntries :
          /\ RequestUrl(j) # EmptyString
          /\ ~isAllowedLinkedInMediaUrl(RequestUrl(j))
    /\ \E i \in Fetched : ~SurvivesExtraction(entries[i].url)

MediaKeys == {"imageUrls", "videoUrls", "documentUrls"}

NoDuplicate(list) ==
    \A i, j \in DOMAIN list : i # j => list[i] # list[j]

\* Every URL of kind `key` found in the frames i.. that delivered a body,
\* in frame order and, within a frame, in the order of its scan: the sets
\* of the frame's document before any slice.
RECURSIVE FoundInFrames(_, _)
FoundInFrames(i, key) ==
    IF i > Len(frame) THEN <<>>
    ELSE (IF frame[i].net = "delivered"
          THEN EmbedDomSets(frame[i].embed)[key]
          ELSE <<>>) \o FoundInFrames(i + 1, key)

\* Per kind, every distinct URL the attempt discovered, in discovery order:
\* the page's, then the frames'.
FoundInPageAndFrames ==
    LET page == [imageUrls |-> PageImageSet(doc),
                 videoUrls |-> PageVideoSet(doc),
                 documentUrls |-> PageDocumentSet(doc)]
    IN [key \in MediaKeys |-> NewSet(page[key] \o FoundInFrames(1, key))]

\* With nothing found of any kind, the images of the og:image metadata.
Discovered ==
    LET found == FoundInPageAndFrames
    IN IF \A key \in MediaKeys : found[key] = <<>>
       THEN [found EXCEPT !["imageUrls"] = OgImageSet(doc)]
       ELSE found

\* C9: each list of a returned result holds no URL twice, holds at most 40
\* URLs, and is the first 40 of the distinct URLs of its kind in discovery
\* order (the page's before the frames'), however many the page and the
\* frames hold.
C9_ResultListsAreFirstForty ==
    (spc = "done" /\ outcome.kind = "result") =>
        LET discovered == Discovered
        IN \A key \in MediaKeys :
               /\ NoDuplicate(outcome.result[key])
               /\ Len(outcome.result[key]) <= 40
               /\ outcome.result[key] =
                      SubSeq(discovered[key], 1, Min(40, Len(discovered[key])))

\* C9 witness: more than 40 distinct images were discovered, in the page
\* and in a frame; the result lists 40, the last of them from the frame.
C9_FortiethFromAFrame ==
    /\ spc = "done"
    /\ outcome.kind = "result"
    /\ Len(outcome.result.imageUrls) = 40
    /\ ~Has(pageMedia.imageUrls, outcome.result.imageUrls[40])
    /\ Len(Discovered.imageUrls) > 40

\* C10 as stated: no URL set of an extraction holds more than 40 URLs at
\* any stage, the sets the frames' and the page's lists are merged in
\* included.
C10_NoSetExceedsForty ==
    \A key \in MediaKeys :
        /\ Len(pageMedia[key]) <= 40
        /\ \A i \in DOMAIN frame : Len(frame[i].out[key]) <= 40
        /\ Len(embedSets[key]) <= 40
        /\ Len(embedMedia[key]) <= 40
        /\ Len(mergedSets[key]) <= 40

\* C10, amended: every URL list an extraction stage hands on (the page's
\* lists per kind, each frame's lists, the lists extractMediaFromEmbeds
\* returns, the lists of the result) holds at most 40 URLs; the sets they
\* are sliced from are not capped.
C10_ListsHandedOnAreCapped ==
    \A key \in MediaKeys :
        /\ Len(pageMedia[key]) <= 40
        /\ \A i \in DOMAIN frame : Len(frame[i].out[key]) <= 40
        /\ Len(embedMedia[key]) <= 40
        /\ outcome.kind = "result" => Len(outcome.result[key]) <= 40

\* C10 witness: the frames' images made a set of more than 40, the merged
\* set held more than 40, and the lists handed on hold 40.
C10_SetsLargerThanTheirLists ==
    /\ spc = "done"
    /\ Len(embedSets.imageUrls) > 40
    /\ Len(mergedSets.imageUrls) > 40
    /\ Len(embedMedia.imageUrls) = 40
    /\ Len(outcome.result.imageUrls) = 40

\* The lists of kind `key` that the frames i.. whose fetch and read succeeded
\* yield, in frame order; a frame that failed is passed over as if it were
\* not in the list of frames.
RECURSIVE SucceedingFrameUrls(_, _)
SucceedingFrameUrls(i, key) ==
    IF i > Len(frame) THEN <<>>
    ELSE (IF frame[i].net = "delivered"
          THEN extractMediaFromEmbedDom(frame[i].embed)[key]
          ELSE <<>>) \o SucceedingFrameUrls(i + 1, key)

\* The result lists of an attempt that had fetched the succeeding frames
\* only.
ResultWithoutFailingFrames ==
    LET merged == [key \in MediaKeys |->
                      NewSet(pageMedia[key]
                             \o Slice(NewSet(SucceedingFrameUrls(1, key)), 40))]
        lists == IF \A key \in MediaKeys : merged[key] = <<>>
                 THEN [merged EXCEPT !["imageUrls"] = extractOgImageFallback(doc)]
                 ELSE merged
    IN [key \in MediaKeys |-> Slice(lists[key], 40)]

\* C11: a frame whose fetch or read failed contributes three empty lists and
\* never fails the attempt: once the last attempt has parsed its page, the
\* call returns a result exactly when the page has text and fails with
\* TEXT_NOT_FOUND otherwise, whichever frames failed, and the lists of the
\* result are those of the page merged with the succeeding frames alone.
C11_FailingFramesContributeNothing ==
    /\ \A i \in DOMAIN frame :
          frame[i].net = "failed" => frame[i].out = EmptyMedia
    /\ (spc = "done" /\ doc # NoDoc) =>
          IF extractPostText(doc) = <<>>
          THEN /\ outcome.kind = "error"
               /\ outcome.error.code = "TEXT_NOT_FOUND"
          ELSE /\ outcome.kind = "result"
               /\ LET expected == ResultWithoutFailingFrames
                  IN \A key \in MediaKeys : outcome.result[key] = expected[key]

\* C11 witness: of three frames one failed at the fetch, one at the read of
\* its body and one succeeded; the call returned a result that lists an
\* image found in the succeeding frame only.
C11_OneFrameOfThreeSucceeded ==
    /\ spc = "done"
    /\ outcome.kind = "result"
    /\ Len(frame) = 3
    /\ Cardinality({i \in DOMAIN frame : frame[i].net = "failed"}) = 2
    /\ \E i \in DOMAIN frame :
          /\ frame[i].net = "delivered"
          /\ \E k \in DOMAIN frame[i].out.imageUrls :
                /\ Has(outcome.result.imageUrls, frame[i].out.imageUrls[k])
                /\ ~Has(pageMedia.imageUrls, frame[i].out.imageUrls[k])

\* The positions of the request list that hold an admissible URL for the
\* first time.
FirstOccurrences ==
    {j \in DOMAIN mediaEntries :
        /\ isAllowedLinkedInMediaUrl(RequestUrl(j))
        /\ \A k \in 1..(j - 1) : RequestUrl(k) # RequestUrl(j)}

\* C12: the entries a download call fetches are, in request order, the first
\* 40 positions of the list that hold an admissible URL for the first time,
\* each with the type asked for at that position ("image" without one): no
\* URL is fetched twice, none that fails the allowed-media-URL predicate,
\* at most 40 in all, and the fetches are started in that order.
C12_FetchesTheAdmittedList ==
    dpc # "idle" =>
        LET first == FirstOccurrences
        IN /\ Len(entries) = Min(40, Cardinality(first))
           /\ Len(task) = Len(entries)
           /\ \A j \in first :
                 LET rank == Cardinality({k \in first : k <= j})
                 IN rank <= 40 =>
                        /\ entries[rank].url = RequestUrl(j)
                        /\ entries[rank].requestedType =
                               (IF mediaEntries[j].type = NoType THEN "image"
                                ELSE mediaEntries[j].type)
           /\ Cardinality(Fetched) <= 40
           /\ Fetched = 1..Cardinality(Fetched)

\* C12 witness: the list held 42 distinct admissible URLs, the first of
\* them twice, a foreign URL and an entry without url; 40 fetches were
\* issued, the last for the URL at position 43, and the call has returned.
C12_FortyOfFortyTwoFetched ==
    /\ dpc = "returned"
    /\ Len(mediaEntries) > 40
    /\ Cardinality(FirstOccurrences) > 40
    /\ \E j \in DOMAIN mediaEntries : j > 1 /\ RequestUrl(j) = RequestUrl(1)
    /\ \E j \in DOMAIN mediaEntries :
          RequestUrl(j) # EmptyString /\ ~isAllowedLinkedInMediaUrl(RequestUrl(j))
    /\ Cardinality(Fetched) = 40
    /\ entries[40].url = RequestUrl(43)

\* The attempt has parsed its page and extracted the text.
TextExtracted == spc \in {"embeds", "done"} /\ doc # NoDoc

\* The primary selectors that match an element, and those with a match
\* whose normalized text is not empty.
MatchingSelectors == {i \in DOMAIN doc.sel : doc.sel[i] # <<>>}

ProductiveSelectors ==
    {i \in DOMAIN doc.sel :
        \E m \in DOMAIN doc.sel[i] : normalizeWhitespace(doc.sel[i][m]) # EmptyString}

Least(S) == CHOOSE i \in S : \A j \in S : i <= j

\* The text is built from the matches of selector i alone: every chunk is
\* the normalized text of a match, every match with text gave a chunk, each
\* chunk is there once, and the chunks stand in the order of their first
\* matches.
BuiltFromSelector(i) ==
    LET matches == doc.sel[i]
        FirstMatch(chunk) ==
            Least({m \in DOMAIN matches :
                      normalizeWhitespace(matches[m]) = Text(chunk, FALSE)})
    IN /\ \A c \in DOMAIN text :
             \E m \in DOMAIN matches :
                 normalizeWhitespace(matches[m]) = Text(text[c], FALSE)
       /\ \A m \in DOMAIN matches :
             normalizeWhitespace(matches[m]) # EmptyString =>
                 \E c \in DOMAIN text :
                     normalizeWhitespace(matches[m]) = Text(text[c], FALSE)
       /\ NoDuplicate(text)
       /\ \A c, d \in DOMAIN text :
             c < d => FirstMatch(text[c]) < FirstMatch(text[d])

\* The text is what the metadata fallback gives: the description, the
\* title, or nothing.
FromMetadata ==
    \/ text = <<>>
    \/ /\ Len(text) = 1
       /\ Text(text[1], FALSE) \in {normalizeWhitespace(doc.ogDescription),
                                    normalizeWhitespace(doc.ogTitle)}

\* C13 as stated: the text is built from the first selector that matches
\* any element, and the metadata fallback is used only when no selector
\* matched an element.
C13_FirstMatchingSelectorAlone ==
    TextExtracted =>
        IF MatchingSelectors # {}
        THEN BuiltFromSelector(Least(MatchingSelectors))
        ELSE FromMetadata

\* C13, amended: the text is built from the first selector, in list order,
\* that yields a match with non-empty normalized text, from its matches
\* alone; a selector whose matches are all empty is passed over, and the
\* metadata fallback is used only when no selector yielded text.
C13_FirstProductiveSelectorAlone ==
    TextExtracted =>
        IF ProductiveSelectors # {}
        THEN BuiltFromSelector(Least(ProductiveSelectors))
        ELSE FromMetadata

\* C13 witness: the first selector matched texts, one of them twice, and
\* the second selector matched another; the text holds the first
\* selector's two distinct chunks and not the second selector's.
C13_SecondSelectorNotConsulted ==
    /\ TextExtracted
    /\ ProductiveSelectors = {1, 2}
    /\ Len(doc.sel[1]) = 3
    /\ Len(text) = 2
    /\ \A c \in DOMAIN text :
          \A m \in DOMAIN doc.sel[2] :
              normalizeWhitespace(doc.sel[2][m]) # Text(text[c], FALSE)

\* A fallback candidate that is empty or holds a login-wall phrase.
Rejected(candidate) ==
    \/ candidate = EmptyString
    \/ \E phrase \in {"join linkedin", "sign in", "log in", "linkedin: log in"} :
          TextIncludes(candidate, phrase)

\* The metadata fallback decides the text: no selector produced any.
FallbackDecides == TextExtracted /\ ProductiveSelectors = {}

\* C14 as stated: the description, then the title, is tried and a rejected
\* candidate is treated as absent: the text is the first candidate that is
\* not rejected, and it is empty (the attempt failing with TEXT_NOT_FOUND)
\* only when both are rejected.
C14_FirstAcceptableCandidate ==
    FallbackDecides =>
        LET description == normalizeWhitespace(doc.ogDescription)
            title == normalizeWhitespace(doc.ogTitle)
        IN /\ text = (IF ~Rejected(description) THEN <<description.t>>
                      ELSE IF ~Rejected(title) THEN <<title.t>>
                      ELSE <<>>)
           /\ (spc = "done" /\ outcome.kind = "error") =>
                  Rejected(description) /\ Rejected(title)

\* The attempts whose scrapeOnce call has started and neither thrown nor
\* returned.
OpenAttempts ==
    {n \in 1..(RETRY_COUNT + 1) :
        /\ HasEvent("fetch", n)
        /\ ~HasEvent("failed", n)
        /\ ~HasEvent("returned", n)}

\* The frame tasks of the running attempt that have not settled: queued,
\* fetching or reading the body.
UnsettledFrames == {i \in DOMAIN frame : frame[i].st # "settled"}

\* The attempt ends in this step: scrapeOnce throws or returns.
AttemptEnds == attempt' # attempt \/ (spc # "done" /\ spc' = "done")

\* C15: the attempts of one call never overlap. At most one attempt is
\* open, the running one, and with it at most one page fetch; the events
\* are in attempt order, and the page fetch of attempt n+1 comes right
\* after the observer call for attempt n, which comes right after the
\* failure of attempt n; the step that ends an attempt, into the next
\* attempt or out of the call, is taken with every frame fetch of the
\* attempt settled and the pool empty, and once the call has settled
\* nothing is open.
C15_AttemptsNeverOverlap ==
    /\ [](/\ OpenAttempts \subseteq {attempt}
          /\ Len(SelectSeq(trace, LAMBDA e : e.ev = "fetch"
                                             /\ e.attempt \in OpenAttempts)) <= 1
          /\ \A k \in DOMAIN trace :
                /\ k > 1 => trace[k - 1].attempt <= trace[k].attempt
                /\ (trace[k].ev = "fetch" /\ trace[k].attempt > 1) =>
                      /\ k > 2
                      /\ trace[k - 1].ev = "onRetry"
                      /\ trace[k - 1].attempt = trace[k].attempt - 1
                      /\ trace[k - 2].ev = "failed"
                      /\ trace[k - 2].attempt = trace[k].attempt - 1
          /\ UnsettledFrames # {} => spc = "embeds" /\ attempt \in OpenAttempts
          /\ spc = "done" => OpenAttempts = {} /\ UnsettledFrames = {})
    /\ [][AttemptEnds =>
             /\ UnsettledFrames = {}
             /\ equeue = <<>>
             /\ eactive = 0
             /\ OpenAttempts' \subseteq {attempt'}]_vars

\* C15 witness: attempt 1 fetched its frames and failed for want of text;
\* attempt 2 now has the frame fetches in flight, and one frame queued.
C15_SecondAttemptFetchesFrames ==
    /\ attempt = 2
    /\ spc = "embeds"
    /\ HasEvent("body", 1)
    /\ \E k \in DOMAIN trace :
          /\ trace[k].ev = "failed"
          /\ trace[k].attempt = 1
          /\ trace[k].error.code = "TEXT_NOT_FOUND"
    /\ Cardinality(InFlight(frame)) = EMBED_FETCH_CONCURRENCY
    /\ equeue # <<>>

====
